---- MODULE Spec2Model ----
(***************************************************************************)
(* Webhook dispatch-and-publish pipeline of rustin_bot_publisher:          *)
(* src/src/webhook_handler.rs (ChannelPool, receive_message and its        *)
(* handlers, publish_to_queue) and the pool construction of src/src/main.rs*)
(*                                                                         *)
(* A string is a sequence of one-character strings.  A serde_json::Value   *)
(* is a record [t, v]: t is the variant, v its content.  An Option is a    *)
(* sequence of length 0 (None) or 1 (Some).                                *)
(***************************************************************************)
EXTENDS Integers, Sequences, FiniteSets, TLC

VARIABLES
    channels,   \* ChannelPool: the Vec the Cycle iterates over (Cycle.orig)
    pos,        \* ChannelPool: how many items Cycle.iter has yielded in this pass
    holder,     \* ChannelPool: the task holding the tokio Mutex, or NoTask
    pc,         \* per task: where its receive_message call stands
    payload,    \* per task: the Json(payload) of its current request
    queue,      \* per task: queue_name passed to publish_to_queue
    body,       \* per task: serialized_message of publish_to_queue
    cur,        \* per task: iterator position read inside channels.next()
    chan,       \* per task: the handle get_next_channel returned, as an Option
    status,     \* per task: the StatusCode receive_message returned
    sent,       \* per task: the basic_publish calls of the current request
    issued,     \* history: handles returned by get_next_channel, in lock order
    nreq        \* history: number of requests received so far

vars == <<channels, pos, holder, pc, payload, queue, body, cur, chan, status,
          sent, issued, nreq>>

----
\* Bounds of the model

\* concurrent request tasks
MaxTasks == 2

\* requests served in a run of the concurrent server
MaxRequests == 6

\* requests served in a run of the one-task server
MaxSoloRequests == 2

\* elements of a photo array
MaxPhotos == 3

\* lines after the command line of a /songlinks text
MaxSongLines == 11

\* characters of a line of a /songlinks text
MaxLineLen == 51

\* Program constants

PoolSize == 5

Tasks == 1..MaxTasks

NoTask == 0

----
\* Strings

SLASH_READIMAGE == <<"/", "r", "e", "a", "d", "i", "m", "a", "g", "e">>

SLASH_HELP == <<"/", "h", "e", "l", "p">>

SLASH_SONGLINKS == <<"/", "s", "o", "n", "g", "l", "i", "n", "k", "s">>

HELP_TEXT ==
    <<"T", "y", "p", "e", " ", "/", "s", "o", "n", "g", "l", "i", "n", "k", "s", ",",
    " ", "f", "o", "l", "l", "o", "w", "e", "d", " ", "b", "y", " ", "u", "p", " ",
    "t", "o", " ", "1", "0", " ", "l", "i", "n", "e", "s", " ", "o", "f", " ", "s",
    "o", "n", "g", " ", "t", "i", "t", "l", "e", "s", " ", "t", "o", " ", "g", "e",
    "t", " ", "d", "o", "w", "n", "l", "o", "a", "d", " ", "l", "i", "n", "k", "s",
    ".", "\n", "/", "r", "e", "a", "d", "i", "m", "a", "g", "e", " ", "w", "i", "t",
    "h", " ", "a", "n", " ", "a", "t", "t", "a", "c", "h", "e", "d", " ", "i", "m",
    "a", "g", "e", ",", " ", "t", "o", " ", "g", "e", "t", " ", "t", "h", "e", " ",
    "t", "e", "x", "t", " ", "f", "r", "o", "m", " ", "t", "h", "e", " ", "i", "m",
    "a", "g", "e", ".", "\n", "/", "d", "o", "n", "a", "t", "e", " ", "t", "o", " ",
    "g", "e", "t", " ", "a", " ", "Q", "R", " ", "c", "o", "d", "e", ".">>

IMAGE_QUEUE == "ImageToText"

REPLY_QUEUE == "Reply"

MUSIC_QUEUE == "Music"

\* a prefix test that leaves out the last character of the prefix
StartsWithShort(s, prefix) ==
    /\ Len(s) >= Len(prefix) - 1
    /\ SubSeq(s, 1, Len(prefix) - 1) = SubSeq(prefix, 1, Len(prefix) - 1)

\* str::starts_with
StartsWith(s, prefix) ==
    /\ Len(s) >= Len(prefix)
    /\ SubSeq(s, 1, Len(prefix)) = prefix

----
\* serde_json::Value

Null == [t |-> "null", v |-> <<>>]

JStr(s) == [t |-> "str", v |-> s]

\* a Number holding an integer that fits i64
JInt(n) == [t |-> "int", v |-> n]

\* a Number holding an integer above i64::MAX (it fits only u64)
JBig == [t |-> "big", v |-> <<>>]

\* a Number holding an f64
JFloat == [t |-> "float", v |-> <<>>]

JArr(s) == [t |-> "arr", v |-> s]

JObj(f) == [t |-> "obj", v |-> f]

\* Value's Index<&str>: Null unless the value is an object with that key
Get(val, key) ==
    IF val.t = "obj" /\ key \in DOMAIN val.v THEN val.v[key] ELSE Null

\* Value::as_i64
as_i64(val) == IF val.t = "int" THEN <<val.v>> ELSE <<>>

\* Value::as_str
as_str(val) == IF val.t = "str" THEN <<val.v>> ELSE <<>>

\* Value::as_array
as_array(val) == IF val.t = "arr" THEN <<val.v>> ELSE <<>>

\* Option::unwrap_or
unwrap_or(opt, default) == IF opt = <<>> THEN default ELSE opt[1]

----
\* Payload Extractor

\* a chat id that defaults to 0 when the field is no i64
extract_chat_id_or_zero(p) ==
    <<unwrap_or(as_i64(Get(Get(Get(p, "message"), "chat"), "id")), 0)>>

extract_chat_id(p) == as_i64(Get(Get(Get(p, "message"), "chat"), "id"))

\* a caption looked up at the top level of the payload
extract_caption_top_level(p) == as_str(Get(p, "caption"))

extract_caption(p) == as_str(Get(Get(p, "message"), "caption"))

extract_text(p) == as_str(Get(Get(p, "message"), "text"))

\* the key closure of max_by_key
WidthKey(photo) == unwrap_or(as_i64(Get(photo, "width")), 0)

\* Iterator::max_by_key: a fold that keeps the accumulator only when its key
\* is strictly greater, so the last of several maximal elements is returned
\* a fold that also keeps the accumulator on equal keys: the first maximum
KeepsAccOnTie(acc, x) == WidthKey(acc) >= WidthKey(x)

KeepsAcc(acc, x) == WidthKey(acc) > WidthKey(x)

RECURSIVE MaxFold(_, _, _)
MaxFold(arr, i, acc) ==
    IF i > Len(arr) THEN acc
    ELSE MaxFold(arr, i + 1, IF KeepsAcc(acc, arr[i]) THEN acc ELSE arr[i])

max_by_key(arr) == IF arr = <<>> THEN <<>> ELSE <<MaxFold(arr, 2, arr[1])>>

\* the elements of arr that carry an i64 width
RECURSIVE WithWidth(_)
WithWidth(arr) ==
    IF arr = <<>> THEN <<>>
    ELSE (IF as_i64(Get(Head(arr), "width")) # <<>> THEN <<Head(arr)>> ELSE <<>>)
         \o WithWidth(Tail(arr))

\* a selection that passes over the elements without an i64 width
extract_largest_image_file_id_sized(p) ==
    LET arr == as_array(Get(Get(p, "message"), "photo"))
    IN  IF arr = <<>> THEN <<>>
        ELSE LET m == max_by_key(WithWidth(arr[1]))
             IN  IF m = <<>> THEN <<>> ELSE as_str(Get(m[1], "file_id"))

\* a selection that passes over the elements without a string file_id
extract_largest_image_file_id_fallback(p) ==
    LET arr == as_array(Get(Get(p, "message"), "photo"))
        Has(e) == as_str(Get(e, "file_id")) # <<>>
    IN  IF arr = <<>> THEN <<>>
        ELSE LET m == max_by_key(SelectSeq(arr[1], Has))
             IN  IF m = <<>> THEN <<>> ELSE as_str(Get(m[1], "file_id"))

extract_largest_image_file_id(p) ==
    LET arr == as_array(Get(Get(p, "message"), "photo"))
    IN  IF arr = <<>> THEN <<>>
        ELSE LET m == max_by_key(arr[1])
             IN  IF m = <<>> THEN <<>> ELSE as_str(Get(m[1], "file_id"))

----
\* handle_songlinks: text.lines().skip(1).take(10).map(chars().take(50)).join("\n")

SkipLines == 1

TakeLines == 10

TakeChars == 50

\* index of the first "\n" of s at or after i, or 0
RECURSIVE FindNewline(_, _)
FindNewline(s, i) ==
    IF i > Len(s) THEN 0
    ELSE IF s[i] = "\n" THEN i
    ELSE FindNewline(s, i + 1)

\* str::split_inclusive('\n'): pieces that keep their terminator; no piece
\* after a final terminator
RECURSIVE SplitInclusive(_)
SplitInclusive(s) ==
    IF s = <<>> THEN <<>>
    ELSE LET i == FindNewline(s, 1)
         IN  IF i = 0 THEN <<s>>
             ELSE <<SubSeq(s, 1, i)>> \o SplitInclusive(SubSeq(s, i + 1, Len(s)))

\* the closure of str::lines: strip one "\n", then one "\r" before it
StripLineEnding(line) ==
    IF line # <<>> /\ line[Len(line)] = "\n"
    THEN LET l == SubSeq(line, 1, Len(line) - 1)
         IN  IF l # <<>> /\ l[Len(l)] = "\r" THEN SubSeq(l, 1, Len(l) - 1) ELSE l
    ELSE line

\* str::lines
Lines(s) == LET parts == SplitInclusive(s)
            IN  [i \in 1..Len(parts) |-> StripLineEnding(parts[i])]

\* Iterator::skip
Skip(seq, n) == SubSeq(seq, n + 1, Len(seq))

\* Iterator::take
Take(seq, n) == SubSeq(seq, 1, IF Len(seq) < n THEN Len(seq) ELSE n)

\* [String]::join
RECURSIVE Join(_, _)
Join(seq, sep) ==
    IF seq = <<>> THEN <<>>
    ELSE IF Len(seq) = 1 THEN seq[1]
    ELSE seq[1] \o sep \o Join(Tail(seq), sep)

\* a song list that keeps the command line
truncated_songs_no_skip(text) ==
    LET kept == Take(Lines(text), TakeLines)
    IN  [i \in 1..Len(kept) |-> Take(kept[i], TakeChars)]

truncated_songs(text) ==
    LET kept == Take(Skip(Lines(text), SkipLines), TakeLines)
    IN  [i \in 1..Len(kept) |-> Take(kept[i], TakeChars)]

----
\* Command Dispatcher.  A handler runs without suspending up to its call of
\* publish_to_queue; Return and Publish are the two ways that prefix ends.

RabbitMessage(chat_id, text) == [chat_id |-> chat_id, text |-> text]

Return(code) == [kind |-> "return", status |-> code]

Publish(queue_name, message) ==
    [kind |-> "publish", queue |-> queue_name, message |-> message]

\* a /readimage handler that publishes whether or not a file_id was found
handle_readimage_unchecked(chat_id, p) ==
    Publish("ImageToText",
            [chat_id |-> chat_id,
             text |-> unwrap_or(extract_largest_image_file_id(p), <<>>)])

handle_readimage(chat_id, p) ==
    LET file_id == extract_largest_image_file_id(p)
    IN  IF file_id # <<>>
        THEN Publish(IMAGE_QUEUE, RabbitMessage(chat_id, file_id[1]))
        ELSE Return("BAD_REQUEST")

\* a /help handler that publishes to the music queue
handle_help_command_to_music(chat_id) ==
    Publish("Music", [chat_id |-> chat_id, text |-> HELP_TEXT])

handle_help_command(chat_id) ==
    Publish(REPLY_QUEUE, RabbitMessage(chat_id, HELP_TEXT))

\* a /songlinks handler that publishes to the reply queue
handle_songlinks_to_reply(chat_id, text) ==
    Publish("Reply",
            [chat_id |-> chat_id, text |-> Join(truncated_songs(text), <<"\n">>)])

handle_songlinks(chat_id, text) ==
    Publish(MUSIC_QUEUE,
            RabbitMessage(chat_id, Join(truncated_songs(text), <<"\n">>)))

receive_message(p) ==
    LET chat_id == extract_chat_id(p)
        command == extract_caption(p)
        text    == extract_text(p)
    IN  IF chat_id # <<>>
        THEN IF command # <<>>
             THEN IF command[1] = SLASH_READIMAGE
                  THEN handle_readimage(chat_id[1], p)
                  ELSE Return("OK")
             ELSE IF text # <<>>
                  THEN IF text[1] = SLASH_HELP
                       THEN handle_help_command(chat_id[1])
                       ELSE IF StartsWith(text[1], SLASH_SONGLINKS)
                            THEN handle_songlinks(chat_id[1], text[1])
                            ELSE Return("OK")
                  ELSE Return("OK")
        ELSE Return("BAD_REQUEST")

\* serde_json::to_vec of a RabbitMessage: the JSON document it encodes
to_vec(message) ==
    JObj([chat_id |-> JInt(message.chat_id), text |-> JStr(message.text)])

----
\* Resource Pool: Cycle<IntoIter<Arc<Channel>>> behind a Mutex

\* an iterator that yields its item without moving on
IterNextNoAdvance(p) ==
    IF p < Len(channels)
    THEN [item |-> <<channels[p + 1]>>, pos |-> p]
    ELSE [item |-> <<>>, pos |-> p]

\* vec::IntoIter::next at position p
IterNext(p) ==
    IF p < Len(channels)
    THEN [item |-> <<channels[p + 1]>>, pos |-> p + 1]
    ELSE [item |-> <<>>, pos |-> p]

\* a Cycle that, once exhausted, goes on yielding the last item
CycleNextStuck(p) ==
    LET r == IterNext(p)
    IN  IF r.item = <<>> THEN IterNext(Len(channels) - 1) ELSE r

\* Cycle::next: on exhaustion restart from a clone of the original
CycleNext(p) ==
    LET r == IterNext(p)
    IN  IF r.item = <<>> THEN IterNext(0) ELSE r

\* a lock that never makes a caller wait
LockAlwaysFree == TRUE

\* Mutex::lock resolves only when no guard is alive
LockFree == holder = NoTask

----
\* Inbound payloads

Absent == [t |-> "absent", v |-> <<>>]

\* an object holding the fields of f that are present
MkObj(f) == JObj([k \in {k \in DOMAIN f : f[k] # Absent} |-> f[k]])

Chat(id) == MkObj([id |-> id])

Payload(chat, caption, text, photo) ==
    MkObj([message |->
        MkObj([chat |-> chat, caption |-> caption, text |-> text, photo |-> photo])])

Photo(width, file_id) == MkObj([width |-> width, file_id |-> file_id])

SongText2 == SLASH_SONGLINKS \o <<"\n", "a", "b", "\n", "c">>

FileId(i) == <<"f", "i", "l", "e">> \o <<<<"0", "1", "2", "3", "4", "5">>[i + 1]>>

\* payloads of the concurrent server: one per outcome
CorePayloads ==
    { Payload(Chat(JInt(7)), Absent, JStr(SLASH_HELP), Absent),
      Payload(Chat(JInt(-3)), JStr(SLASH_READIMAGE), Absent,
              JArr(<<Photo(JInt(1), JStr(FileId(1)))>>)),
      Payload(Chat(Absent), Absent, JStr(SLASH_HELP), Absent),
      Payload(Chat(JInt(7)), Absent, JStr(<<"h", "i">>), Absent) }

\* the payload every request of the pool's specification carries
PoolPayloads == { Payload(Chat(JInt(7)), Absent, JStr(SLASH_HELP), Absent) }

\* payloads over every shape of chat id, caption, text and photo
ChatShapes ==
    { Chat(JInt(7)), Chat(JInt(-3)), Chat(Absent), Chat(JStr(<<"7">>)),
      Chat(JFloat), Chat(JBig), Absent, JStr(<<"7">>) }

CaptionShapes ==
    { Absent, JInt(1), JStr(SLASH_READIMAGE), JStr(SLASH_READIMAGE \o <<" ">>),
      JStr(SLASH_HELP), JStr(<<>>) }

TextShapes ==
    { Absent, JInt(1), JStr(SLASH_HELP), JStr(SLASH_HELP \o <<"x">>),
      JStr(<<"h", "i">>), JStr(SLASH_SONGLINKS), JStr(SongText2),
      JStr(<<" ">> \o SLASH_SONGLINKS), JStr(SubSeq(SLASH_SONGLINKS, 1, 9)) }

PhotoShapes ==
    { Absent, JArr(<<>>), JStr(FileId(0)),
      JArr(<<Photo(JInt(1), JStr(FileId(1)))>>),
      JArr(<<Photo(JInt(1), Absent)>>) }

DispatchPayloads ==
    { Payload(c, cap, txt, ph) :
        c \in ChatShapes, cap \in CaptionShapes, txt \in TextShapes, ph \in PhotoShapes }
    \cup { JObj(<<>>), MkObj([message |-> JStr(SLASH_HELP)]), Null }

\* /readimage payloads over photo arrays; element i carries FileId(i) or none
WidthShapes == { Absent, JInt(-1), JInt(1), JInt(2) }

PhotoArrays ==
    UNION { { [i \in 1..n |-> Photo(w[i], IF f[i] THEN JStr(FileId(i)) ELSE Absent)] :
                w \in [1..n -> WidthShapes], f \in [1..n -> BOOLEAN] } :
            n \in 0..MaxPhotos }

\* arrays with a width that is a number but no integer
FloatWidthArrays ==
    { <<Photo(JFloat, JStr(FileId(1)))>>,
      <<Photo(JFloat, JStr(FileId(1))), Photo(JFloat, Absent)>>,
      <<Photo(JFloat, Absent), Photo(JFloat, JStr(FileId(2)))>>,
      <<Photo(JInt(1), JStr(FileId(1))), Photo(JFloat, JStr(FileId(2)))>>,
      <<Photo(JInt(-1), JStr(FileId(1))), Photo(JFloat, JStr(FileId(2)))>> }

ImagePayloads ==
    { Payload(Chat(JInt(7)), JStr(SLASH_READIMAGE), Absent, JArr(a)) :
        a \in PhotoArrays \cup FloatWidthArrays }
    \cup { Payload(Chat(JInt(7)), JStr(SLASH_READIMAGE), JStr(SLASH_HELP), ph) :
             ph \in { Absent, Null, JStr(FileId(0)) } }

\* /songlinks texts: a command line, then n lines of chosen lengths, each
\* ended by sep, the last one by tail
SongChar(i, j) == <<"a", "b", "c">>[((i + j) % 3) + 1]

SongLine(i, len) == [j \in 1..len |-> SongChar(i, j)]

RECURSIVE SongBody(_, _, _, _, _)
SongBody(i, n, lens, sep, tail) ==
    IF i > n THEN <<>>
    ELSE SongLine(i, lens[i]) \o (IF i = n THEN tail ELSE sep)
         \o SongBody(i + 1, n, lens, sep, tail)

SongTextOf(cmd, n, lens, sep, tail) ==
    cmd \o (IF n = 0 THEN tail ELSE sep \o SongBody(1, n, lens, sep, tail))

LineLens == {0, 1} \cup ((TakeChars - 1)..MaxLineLen)

\* every line of length a, or lines of lengths a and 1 in turn
LenProfiles(n) ==
    { [i \in 1..n |-> a] : a \in LineLens }
    \cup { [i \in 1..n |-> IF i % 2 = 1 THEN a ELSE 1] : a \in LineLens }

SongTexts ==
    UNION { { SongTextOf(cmd, n, lens, sep, tail) :
                cmd \in { SLASH_SONGLINKS, SLASH_SONGLINKS \o <<" ", "x">> },
                lens \in LenProfiles(n),
                sep \in { <<"\n">>, <<"\r", "\n">> },
                tail \in { <<>>, <<"\n">>, <<"\r", "\n">>, <<"\r">> } } :
            n \in 0..MaxSongLines }

SongPayloads ==
    { Payload(Chat(c), Absent, JStr(txt), Absent) :
        c \in { JInt(7) }, txt \in SongTexts }

----
\* The server: each task serves one request at a time

\* a main whose loop creates no channel
NoChannels == <<>>

MainChannels == [i \in 1..PoolSize |-> i - 1]

TypeInit ==
    /\ pos = 0
    /\ holder = NoTask
    /\ pc = [t \in Tasks |-> "idle"]
    /\ payload = [t \in Tasks |-> Null]
    /\ queue = [t \in Tasks |-> ""]
    /\ body = [t \in Tasks |-> Null]
    /\ cur = [t \in Tasks |-> 0]
    /\ chan = [t \in Tasks |-> <<>>]
    /\ status = [t \in Tasks |-> ""]
    /\ sent = [t \in Tasks |-> <<>>]
    /\ issued = <<>>
    /\ nreq = 0

\* main: ChannelPool::new over the five channels it created
Init == channels = MainChannels /\ TypeInit

\* a handler that takes its handle from the pool on entry, before it knows
\* whether it will publish
ReceiveMessageEager(t, p, cap) ==
    /\ pc[t] = "idle"
    /\ nreq < cap
    /\ LockFree
    /\ nreq' = nreq + 1
    /\ payload' = [payload EXCEPT ![t] = p]
    /\ LET r == receive_message(p)
           n == CycleNext(pos)
       IN  IF r.kind = "return"
           THEN /\ pc' = [pc EXCEPT ![t] = "done"]
                /\ status' = [status EXCEPT ![t] = r.status]
                /\ queue' = [queue EXCEPT ![t] = ""]
                /\ body' = [body EXCEPT ![t] = Null]
                /\ pos' = n.pos
                /\ issued' = issued \o n.item
           ELSE /\ pc' = [pc EXCEPT ![t] = "lock"]
                /\ status' = [status EXCEPT ![t] = ""]
                /\ queue' = [queue EXCEPT ![t] = r.queue]
                /\ body' = [body EXCEPT ![t] = to_vec(r.message)]
                /\ UNCHANGED <<pos, issued>>
    /\ UNCHANGED <<channels, holder, cur, chan, sent>>

\* the handler is entered with payload p and runs to its first suspension
\* point, or to its return when it publishes nothing
ReceiveMessage(t, p, cap) ==
    /\ pc[t] = "idle"
    /\ nreq < cap
    /\ nreq' = nreq + 1
    /\ payload' = [payload EXCEPT ![t] = p]
    /\ LET r == receive_message(p)
       IN  IF r.kind = "return"
           THEN /\ pc' = [pc EXCEPT ![t] = "done"]
                /\ status' = [status EXCEPT ![t] = r.status]
                /\ queue' = [queue EXCEPT ![t] = ""]
                /\ body' = [body EXCEPT ![t] = Null]
           ELSE /\ pc' = [pc EXCEPT ![t] = "lock"]
                /\ status' = [status EXCEPT ![t] = ""]
                /\ queue' = [queue EXCEPT ![t] = r.queue]
                /\ body' = [body EXCEPT ![t] = to_vec(r.message)]
    /\ UNCHANGED <<channels, pos, holder, cur, chan, sent, issued>>

\* get_next_channel: self.channels.lock().await
Lock(t) ==
    /\ pc[t] = "lock"
    /\ LockFree
    /\ holder' = t
    /\ pc' = [pc EXCEPT ![t] = "read"]
    /\ UNCHANGED <<channels, pos, payload, queue, body, cur, chan, status,
                   sent, issued, nreq>>

\* channels.next(): the iterator's position is read ...
NextRead(t) ==
    /\ pc[t] = "read"
    /\ cur' = [cur EXCEPT ![t] = pos]
    /\ pc' = [pc EXCEPT ![t] = "advance"]
    /\ UNCHANGED <<channels, pos, holder, payload, queue, body, chan, status,
                   sent, issued, nreq>>

\* ... and the advanced position written back; expect() panics on None
NextAdvance(t) ==
    /\ pc[t] = "advance"
    /\ LET r == CycleNext(cur[t])
       IN  IF r.item = <<>>
           THEN /\ pc' = [pc EXCEPT ![t] = "panic"]
                /\ UNCHANGED <<pos, chan, issued>>
           ELSE /\ pos' = r.pos
                /\ chan' = [chan EXCEPT ![t] = r.item]
                /\ issued' = Append(issued, r.item[1])
                /\ pc' = [pc EXCEPT ![t] = "unlock"]
    /\ UNCHANGED <<channels, holder, payload, queue, body, cur, status, sent, nreq>>

\* a get_next_channel whose guard outlives the call: it is still held while
\* basic_publish runs
UnlockKeepsGuard(t) ==
    /\ pc[t] = "unlock"
    /\ sent' = [sent EXCEPT ![t] =
                   Append(@, [queue |-> queue[t], body |-> body[t],
                              chan |-> chan[t][1], ticket |-> Len(issued)])]
    /\ pc' = [pc EXCEPT ![t] = "publish"]
    /\ UNCHANGED <<channels, pos, holder, payload, queue, body, cur, chan,
                   status, issued, nreq>>

\* get_next_channel returns: the guard is dropped, and publish_to_queue
\* calls basic_publish on the handle.  The call is recorded with its ticket:
\* the number of handles issued up to and including its own.
Unlock(t) ==
    /\ pc[t] = "unlock"
    /\ holder' = NoTask
    /\ sent' = [sent EXCEPT ![t] =
                   Append(@, [queue |-> queue[t], body |-> body[t],
                              chan |-> chan[t][1], ticket |-> Len(issued)])]
    /\ pc' = [pc EXCEPT ![t] = "publish"]
    /\ UNCHANGED <<channels, pos, payload, queue, body, cur, chan, status,
                   issued, nreq>>

\* basic_publish(...).await resolves to Ok: receive_message returns OK
PublishOk(t) ==
    /\ pc[t] = "publish"
    /\ status' = [status EXCEPT ![t] = "OK"]
    /\ pc' = [pc EXCEPT ![t] = "done"]
    /\ UNCHANGED <<channels, pos, holder, payload, queue, body, cur, chan,
                   sent, issued, nreq>>

\* a pool that drops the handle a submission failed on
PublishErrEvicts(t) ==
    /\ pc[t] = "publish"
    /\ status' = [status EXCEPT ![t] = "INTERNAL_SERVER_ERROR"]
    /\ pc' = [pc EXCEPT ![t] = "done"]
    /\ LET Other(h) == h # chan[t][1]
       IN  channels' = SelectSeq(channels, Other)
    /\ UNCHANGED <<pos, holder, payload, queue, body, cur, chan,
                   sent, issued, nreq>>

\* a publish_to_queue that, on Err, goes back for another handle
PublishErrRetries(t) ==
    /\ pc[t] = "publish"
    /\ pc' = [pc EXCEPT ![t] = "lock"]
    /\ UNCHANGED <<channels, pos, holder, payload, queue, body, cur, chan,
                   status, sent, issued, nreq>>

\* basic_publish(...).await resolves to Err: map_err makes it a 500
PublishErr(t) ==
    /\ pc[t] = "publish"
    /\ status' = [status EXCEPT ![t] = "INTERNAL_SERVER_ERROR"]
    /\ pc' = [pc EXCEPT ![t] = "done"]
    /\ UNCHANGED <<channels, pos, holder, payload, queue, body, cur, chan,
                   sent, issued, nreq>>

\* the response is written and the request's task ends; the task slot is
\* free for the next request
Respond(t) ==
    /\ pc[t] = "done"
    /\ pc' = [pc EXCEPT ![t] = "idle"]
    /\ payload' = [payload EXCEPT ![t] = Null]
    /\ queue' = [queue EXCEPT ![t] = ""]
    /\ body' = [body EXCEPT ![t] = Null]
    /\ cur' = [cur EXCEPT ![t] = 0]
    /\ chan' = [chan EXCEPT ![t] = <<>>]
    /\ status' = [status EXCEPT ![t] = ""]
    /\ sent' = [sent EXCEPT ![t] = <<>>]
    /\ UNCHANGED <<channels, pos, holder, issued, nreq>>

PoolStep(t) ==
    \/ Lock(t)
    \/ NextRead(t)
    \/ NextAdvance(t)
    \/ Unlock(t)
    \/ PublishOk(t)
    \/ PublishErr(t)
    \/ Respond(t)

\* the server, its requests handled concurrently by the tasks
Next ==
    \E t \in Tasks :
        \/ \E p \in CorePayloads : ReceiveMessage(t, p, MaxRequests)
        \/ PoolStep(t)

Spec == Init /\ [][Next]_vars

\* ChannelPool::new over any non-empty Vec of handles, every request publishing
InitPool ==
    /\ channels \in { [i \in 1..k |-> i - 1] : k \in 1..PoolSize }
    /\ TypeInit

NextPool ==
    \E t \in Tasks :
        \/ \E p \in PoolPayloads : ReceiveMessage(t, p, MaxRequests)
        \/ PoolStep(t)

SpecPool == InitPool /\ [][NextPool]_vars

\* the server under fair scheduling, every request publishing: tokio's
\* Mutex wakes its waiters in FIFO order, so a task that keeps asking for
\* the lock gets it; the body
\* of get_next_channel has no suspension point after lock(), so the task
\* holding the lock runs on to the return
Fairness ==
    \A t \in Tasks :
        /\ SF_vars(Lock(t))
        /\ WF_vars(NextRead(t))
        /\ WF_vars(NextAdvance(t))
        /\ WF_vars(Unlock(t))

SpecFair == Init /\ [][NextPool]_vars /\ Fairness

\* the server with one task, over the payloads of P
NextSolo(P) ==
    \/ \E p \in P : ReceiveMessage(1, p, MaxSoloRequests)
    \/ PoolStep(1)

NextDispatch == NextSolo(DispatchPayloads)

SpecDispatch == Init /\ [][NextDispatch]_vars

NextImage == NextSolo(ImagePayloads)

SpecImage == Init /\ [][NextImage]_vars

NextSong == NextSolo(SongPayloads)

SpecSong == Init /\ [][NextSong]_vars

----
\* Round-robin issue of the pool's handles (SpecPool)

K == Len(channels)

\* C1: the i-th call of get_next_channel, in the order the calls take the
\* lock, returns handle (i-1) mod K; so the call K places after any call
\* returns the same handle again, and the (K+1)-th call returns the handle
\* of the 1st.
C1_RoundRobin ==
    /\ \A i \in 1..Len(issued) : issued[i] = channels[((i - 1) % K) + 1]
    /\ \A i \in 1..Len(issued) : i + K <= Len(issued) => issued[i + K] = issued[i]

\* the pool main builds has issued one handle more than it holds
C1_Witness ==
    /\ K = PoolSize
    /\ Len(issued) = K + 1
    /\ issued[K + 1] = issued[1]

\* the iterator position once n handles have been issued
CursorAfter(n) == IF n = 0 THEN 0 ELSE ((n - 1) % K) + 1

AlignedBlock(b) == (b * K + 1)..((b + 1) * K)

\* C2: with the tasks calling get_next_channel concurrently, every aligned
\* block of K consecutive issuances holds each of the K handles, none twice
\* and none skipped, and the cursor has advanced exactly once per issuance.
C2_OnePerCycle ==
    /\ \A b \in 0..(Len(issued) \div K) :
           (b + 1) * K <= Len(issued) =>
               /\ {issued[i] : i \in AlignedBlock(b)} = {channels[j] : j \in 1..K}
               /\ \A i, j \in AlignedBlock(b) : issued[i] = issued[j] => i = j
    /\ pos = CursorAfter(Len(issued))

\* a full cycle has been issued, and a caller waits for the lock while
\* another is inside channels.next()
C2_Witness ==
    /\ K >= 2
    /\ Len(issued) >= K
    /\ \E t1, t2 \in Tasks :
           /\ pc[t1] = "advance"
           /\ pc[t2] = "lock"

----
\* The terms of the dispatch claims, read off the payload document itself

\* the value at a path of keys; Null where the path leaves the document
RECURSIVE At(_, _)
At(val, path) ==
    IF path = <<>> THEN val
    ELSE IF val.t = "obj" /\ Head(path) \in DOMAIN val.v
         THEN At(val.v[Head(path)], Tail(path))
         ELSE Null

ChatIdField(t) == At(payload[t], <<"message", "chat", "id">>)

CaptionField(t) == At(payload[t], <<"message", "caption">>)

TextField(t) == At(payload[t], <<"message", "text">>)

PhotoField(t) == At(payload[t], <<"message", "photo">>)

\* an integer is a JSON number that is a whole i64 value
HasChatId(t) == ChatIdField(t).t = "int"

HasCaption(t) == CaptionField(t).t = "str"

HasText(t) == TextField(t).t = "str"

\* s begins with the characters of prefix
BeginsWith(s, prefix) ==
    /\ Len(prefix) <= Len(s)
    /\ \A i \in 1..Len(prefix) : s[i] = prefix[i]

\* the request of task t has been served
Done(t) == pc[t] = "done"

\* a request is being or has been served by task t
Serving(t) == pc[t] # "idle"

\* the request of task t ended without calling publish_to_queue
NoPublish(t) == Done(t) /\ sent[t] = <<>> /\ chan[t] = <<>>

\* the request of task t made one basic_publish call, of this document to
\* this queue, and ended with the status of that call
PublishedOnce(t, queue_name, chat_id, text) ==
    /\ Len(sent[t]) = 1
    /\ sent[t][1].queue = queue_name
    /\ sent[t][1].body = JObj([chat_id |-> chat_id, text |-> JStr(text)])
    /\ Done(t) => status[t] \in {"OK", "INTERNAL_SERVER_ERROR"}

\* C3: a request whose payload has no integer message.chat.id ends with
\* BAD_REQUEST and calls basic_publish never, whatever caption, text or
\* photo the payload carries.
C3_NoChatIdRejected ==
    \A t \in Tasks :
        (Serving(t) /\ ~HasChatId(t)) =>
            /\ NoPublish(t)
            /\ status[t] = "BAD_REQUEST"

\* chat id given as a string, the payload otherwise a valid /help
C3_Witness ==
    \E t \in Tasks :
        /\ Done(t)
        /\ ChatIdField(t).t = "str"
        /\ ~HasCaption(t)
        /\ TextField(t) = JStr(SLASH_HELP)
        /\ status[t] = "BAD_REQUEST"

\* C5: a /readimage request with a chat id whose photo array is empty or
\* absent ends with BAD_REQUEST and publishes nothing.
C5_NoPhotoRejected ==
    \A t \in Tasks :
        ( /\ Serving(t)
          /\ HasChatId(t)
          /\ CaptionField(t) = JStr(SLASH_READIMAGE)
          /\ PhotoField(t) \in {Null, JArr(<<>>)} ) =>
            /\ NoPublish(t)
            /\ status[t] = "BAD_REQUEST"

C5_Witness ==
    \E t \in Tasks :
        /\ Done(t)
        /\ HasChatId(t)
        /\ CaptionField(t) = JStr(SLASH_READIMAGE)
        /\ PhotoField(t) = JArr(<<>>)
        /\ status[t] = "BAD_REQUEST"

\* C8: a request with an integer chat id, no caption and text exactly /help
\* makes exactly one basic_publish call, to the Reply queue, whose text is
\* the fixed help string whatever the chat id.
C8_HelpPublished ==
    \A t \in Tasks :
        ( /\ Serving(t)
          /\ HasChatId(t)
          /\ ~HasCaption(t)
          /\ TextField(t) = JStr(SLASH_HELP) ) =>
            /\ Len(sent[t]) <= 1
            /\ Done(t) => PublishedOnce(t, "Reply", ChatIdField(t), HELP_TEXT)

\* /help was published for a negative chat id
C8_Witness ==
    \E t \in Tasks :
        /\ Done(t)
        /\ ChatIdField(t) = JInt(-3)
        /\ ~HasCaption(t)
        /\ TextField(t) = JStr(SLASH_HELP)
        /\ status[t] = "OK"
        /\ Len(sent[t]) = 1

\* the text is a command of the dispatcher
IsTextCommand(s) == s = SLASH_HELP \/ BeginsWith(s, SLASH_SONGLINKS)

\* C9: a request with a chat id, no caption, and no text or a text that is
\* neither exactly /help nor begins with /songlinks ends with OK and
\* publishes nothing.
C9_OtherTextNoOp ==
    \A t \in Tasks :
        ( /\ Serving(t)
          /\ HasChatId(t)
          /\ ~HasCaption(t)
          /\ (HasText(t) => ~IsTextCommand(TextField(t).v)) ) =>
            /\ NoPublish(t)
            /\ status[t] = "OK"

\* the text is one character short of /songlinks
C9_Witness ==
    \E t \in Tasks :
        /\ Done(t)
        /\ HasChatId(t)
        /\ ~HasCaption(t)
        /\ HasText(t)
        /\ Len(TextField(t).v) = Len(SLASH_SONGLINKS) - 1
        /\ BeginsWith(SLASH_SONGLINKS, TextField(t).v)
        /\ status[t] = "OK"

\* C10: a request with a chat id and a caption other than /readimage ends
\* with OK and publishes nothing, also when its text is /help or begins with
\* /songlinks.
C10_CaptionPrecedes ==
    \A t \in Tasks :
        ( /\ Serving(t)
          /\ HasChatId(t)
          /\ HasCaption(t)
          /\ CaptionField(t).v # SLASH_READIMAGE ) =>
            /\ NoPublish(t)
            /\ status[t] = "OK"

\* a caption /help over a text that begins with /songlinks
C10_Witness ==
    \E t \in Tasks :
        /\ Done(t)
        /\ HasChatId(t)
        /\ CaptionField(t) = JStr(SLASH_HELP)
        /\ HasText(t)
        /\ BeginsWith(TextField(t).v, SLASH_SONGLINKS)
        /\ status[t] = "OK"

----
\* The terms of the /readimage claims (SpecImage)

\* a /readimage request with a chat id and a non-empty photo array
ReadImageRequest(t) ==
    /\ Serving(t)
    /\ HasChatId(t)
    /\ CaptionField(t) = JStr(SLASH_READIMAGE)
    /\ PhotoField(t).t = "arr"
    /\ PhotoField(t).v # <<>>

HasWidth(e) == At(e, <<"width">>).t = "int"

\* the width of an element, one without an integer width counting as 0
WidthOf(e) == IF HasWidth(e) THEN At(e, <<"width">>).v ELSE 0

IsWidest(arr, i) == \A j \in 1..Len(arr) : WidthOf(arr[j]) <= WidthOf(arr[i])

FirstWidest(arr) ==
    CHOOSE i \in 1..Len(arr) :
        IsWidest(arr, i) /\ \A j \in 1..Len(arr) : IsWidest(arr, j) => i <= j

LastWidest(arr) ==
    CHOOSE i \in 1..Len(arr) :
        IsWidest(arr, i) /\ \A j \in 1..Len(arr) : IsWidest(arr, j) => j <= i

HasFileId(e) == At(e, <<"file_id">>).t = "str"

\* the image reference of the request of task t is that of element e: what
\* is published is e's file_id, and it is published when e has one
ReferenceIsOf(t, e) ==
    /\ sent[t] # <<>> =>
           /\ HasFileId(e)
           /\ PublishedOnce(t, "ImageToText", ChatIdField(t), At(e, <<"file_id">>).v)
    /\ (Done(t) /\ HasFileId(e)) => sent[t] # <<>>

\* C4 as the spec states it: the reference chosen is that of the first
\* element of maximum width (stated for arrays whose elements all have an
\* integer width).
C4_FirstWidestChosen ==
    \A t \in Tasks :
        ( /\ ReadImageRequest(t)
          /\ \A i \in 1..Len(PhotoField(t).v) : HasWidth(PhotoField(t).v[i]) ) =>
            ReferenceIsOf(t, PhotoField(t).v[FirstWidest(PhotoField(t).v)])

\* C4: for a /readimage request with a non-empty photo array the image
\* reference chosen is that of the element of maximum width, an element
\* without an integer width counting as width 0; among several elements of
\* that width the last one in array order is chosen.
C4_LastWidestChosen ==
    \A t \in Tasks :
        ReadImageRequest(t) =>
            ReferenceIsOf(t, PhotoField(t).v[LastWidest(PhotoField(t).v)])

\* two elements share the maximum width and the later one's file_id went out
C4_Witness ==
    \E t \in Tasks :
        /\ ReadImageRequest(t)
        /\ Done(t)
        /\ status[t] = "OK"
        /\ LET arr == PhotoField(t).v
           IN  /\ FirstWidest(arr) # LastWidest(arr)
               /\ HasWidth(arr[LastWidest(arr)])
               /\ HasFileId(arr[FirstWidest(arr)])
               /\ Len(sent[t]) = 1
               /\ sent[t][1].body.v.text = At(arr[LastWidest(arr)], <<"file_id">>)

\* a /readimage request whose photo array has elements, none with an
\* integer width
NoWidthRequest(t) ==
    /\ ReadImageRequest(t)
    /\ \A i \in 1..Len(PhotoField(t).v) : ~HasWidth(PhotoField(t).v[i])

\* C6 as the spec states it: such a request is rejected and publishes
\* nothing, even when the elements carry a file_id.
C6_NoWidthRejected ==
    \A t \in Tasks :
        NoWidthRequest(t) =>
            /\ NoPublish(t)
            /\ status[t] = "BAD_REQUEST"

\* C6: when no element of the photo array has an integer width the last
\* element is the one selected; the request is rejected with BAD_REQUEST,
\* nothing published, only when that element has no string file_id, and
\* otherwise its file_id is published to the image queue.
C6_NoWidthSelectsLast ==
    \A t \in Tasks :
        NoWidthRequest(t) =>
            LET last == PhotoField(t).v[Len(PhotoField(t).v)]
            IN  IF HasFileId(last)
                THEN /\ Len(sent[t]) <= 1
                     /\ Done(t) =>
                            PublishedOnce(t, "ImageToText", ChatIdField(t),
                                          At(last, <<"file_id">>).v)
                ELSE /\ NoPublish(t)
                     /\ status[t] = "BAD_REQUEST"

\* two elements without a width, both with a file_id: the second's went out
C6_Witness ==
    \E t \in Tasks :
        /\ NoWidthRequest(t)
        /\ Done(t)
        /\ status[t] = "OK"
        /\ Len(PhotoField(t).v) >= 2
        /\ HasFileId(PhotoField(t).v[1])
        /\ Len(sent[t]) = 1
        /\ sent[t][1].body.v.text = JStr(FileId(Len(PhotoField(t).v)))

----
\* The terms of the /songlinks claim (SpecSong).  A line ends at a "\n" or
\* at the end of the text; a "\r" just before the "\n" belongs to the line
\* ending; no line follows the final "\n".

Newlines(s) == {i \in 1..Len(s) : s[i] = "\n"}

\* the elements of a set of numbers in ascending order
RECURSIVE Ascending(_)
Ascending(S) ==
    IF S = {} THEN <<>>
    ELSE LET m == CHOOSE x \in S : \A y \in S : x <= y
         IN  <<m>> \o Ascending(S \ {m})

LineCount(s) ==
    Cardinality(Newlines(s)) + (IF s # <<>> /\ s[Len(s)] # "\n" THEN 1 ELSE 0)

\* the k-th line of s, without its line ending; nl holds the positions of
\* the "\n" of s in ascending order
LineOf(s, nl, k) ==
    LET first == IF k = 1 THEN 1 ELSE nl[k - 1] + 1
        last  == IF k > Len(nl) THEN Len(s)
                 ELSE IF nl[k] - 1 >= first /\ s[nl[k] - 1] = "\r" THEN nl[k] - 2
                 ELSE nl[k] - 1
    IN  SubSeq(s, first, last)

\* the first n characters of line, or all of it
CutTo(line, n) == SubSeq(line, 1, IF Len(line) < n THEN Len(line) ELSE n)

\* number of lines after the command line
FurtherLines(s) == LineCount(s) - 1

KeptCount(s) == IF FurtherLines(s) < TakeLines THEN FurtherLines(s) ELSE TakeLines

\* the lines the outbound text must hold, from the k-th on
RECURSIVE KeptLines(_, _, _)
KeptLines(s, nl, k) ==
    IF k > KeptCount(s) THEN <<>>
    ELSE <<CutTo(LineOf(s, nl, k + 1), TakeChars)>> \o KeptLines(s, nl, k + 1)

\* where each line of kept starts in the outbound text, less one, the
\* first of them at offset at
RECURSIVE KeptOffsets(_, _)
KeptOffsets(kept, at) ==
    IF kept = <<>> THEN <<>>
    ELSE <<at>> \o KeptOffsets(Tail(kept), at + Len(Head(kept)) + 1)

\* out is the kept lines of s in order, a "\n" between neighbours
IsSongList(out, s) ==
    LET kept == KeptLines(s, Ascending(Newlines(s)), 1)
        offs == KeptOffsets(kept, 0)
        m    == Len(kept)
    IN  IF m = 0 THEN out = <<>>
        ELSE /\ Len(out) = offs[m] + Len(kept[m])
             /\ \A k \in 1..m :
                    /\ \A j \in 1..Len(kept[k]) : out[offs[k] + j] = kept[k][j]
                    /\ k < m => out[offs[k + 1]] = "\n"

SongRequest(t) ==
    /\ Serving(t)
    /\ HasChatId(t)
    /\ ~HasCaption(t)
    /\ HasText(t)
    /\ BeginsWith(TextField(t).v, SLASH_SONGLINKS)

\* C7: a request with a chat id, no caption and a text that begins with
\* /songlinks and has N further lines makes exactly one basic_publish call;
\* the text sent is the first min(N, 10) lines after the command line, each
\* cut to its first 50 characters, in order, joined by "\n"; it is empty
\* for N = 0.
C7_SongList ==
    \A t \in Tasks :
        SongRequest(t) =>
            /\ Len(sent[t]) <= 1
            /\ body[t].t = "obj"
            /\ body[t].v.chat_id = ChatIdField(t)
            /\ body[t].v.text.t = "str"
            /\ IsSongList(body[t].v.text.v, TextField(t).v)
            /\ Done(t) =>
                   /\ Len(sent[t]) = 1
                   /\ sent[t][1].body = body[t]
                   /\ status[t] \in {"OK", "INTERNAL_SERVER_ERROR"}

\* more than ten further lines, a kept one longer than fifty characters
C7_Witness ==
    \E t \in Tasks :
        /\ SongRequest(t)
        /\ Done(t)
        /\ status[t] = "OK"
        /\ FurtherLines(TextField(t).v) > TakeLines
        /\ Len(LineOf(TextField(t).v, Ascending(Newlines(TextField(t).v)), 2)) > TakeChars
        /\ Len(sent[t]) = 1
        /\ Len(sent[t][1].body.v.text.v) = TakeLines * TakeChars + TakeLines - 1

----
\* The pool under concurrent requests (Spec)

\* the basic_publish call of task t is in flight
InFlight(t) == pc[t] = "publish"

\* task t is inside the critical section of get_next_channel
InCritical(t) == pc[t] \in {"read", "advance", "unlock"}

\* C11: the pool lock is held only while the cycle position is read and
\* advanced: no task holds it while its basic_publish call is in flight, so
\* the lock is free, or held by a task inside get_next_channel, whatever
\* submissions are stalled.
C11_LockNotHeldAcrossPublish ==
    /\ \A t \in Tasks : InFlight(t) => holder # t
    /\ holder # NoTask => InCritical(holder)
    /\ \A t \in Tasks : InCritical(t) => holder = t

\* one submission is in flight while another task has taken the lock
C11_Witness ==
    \E t1, t2 \in Tasks :
        /\ t1 # t2
        /\ InFlight(t1)
        /\ holder = t2
        /\ pc[t2] = "advance"

\* task t takes a handle in this step
Acquires(t) == pc[t] = "advance" /\ pc'[t] = "unlock"

\* the basic_publish call of task t fails in this step
FailsNow(t) == InFlight(t) /\ pc'[t] # "publish" /\ status'[t] # "OK"

\* C12: a request whose broker submission fails ends with
\* INTERNAL_SERVER_ERROR and is not retried: every request takes at most one
\* handle and makes at most one basic_publish call, whether the call
\* succeeds or fails.
C12_NoRetry ==
    /\ [](\A t \in Tasks :
             /\ Len(sent[t]) <= 1
             /\ status[t] = "INTERNAL_SERVER_ERROR" => (Done(t) /\ Len(sent[t]) = 1))
    /\ [][\A t \in Tasks :
             /\ Acquires(t) => (chan[t] = <<>> /\ sent[t] = <<>>)
             /\ FailsNow(t) =>
                    /\ pc'[t] = "done"
                    /\ status'[t] = "INTERNAL_SERVER_ERROR"
                    /\ sent'[t] = sent[t]
                    /\ issued' = issued]_vars

\* a request has ended with a failed submission, its only one
C12_Witness ==
    \E t \in Tasks :
        /\ Done(t)
        /\ status[t] = "INTERNAL_SERVER_ERROR"
        /\ Len(sent[t]) = 1
        /\ chan[t] # <<>>

----
\* Destination and chat id of what is published (SpecDispatch)

\* the queue the command of the request of task t is bound to, "" for none
QueueOfCommand(t) ==
    IF HasCaption(t)
    THEN IF CaptionField(t).v = SLASH_READIMAGE THEN "ImageToText" ELSE ""
    ELSE IF ~HasText(t) THEN ""
    ELSE IF TextField(t).v = SLASH_HELP THEN "Reply"
    ELSE IF BeginsWith(TextField(t).v, SLASH_SONGLINKS) THEN "Music"
    ELSE ""

\* C13: every basic_publish call carries the chat id of the request that
\* caused it and goes to the queue of the request's command: ImageToText
\* for caption /readimage, Reply for text /help, Music for a text that
\* begins with /songlinks; no request publishes to another queue or to more
\* than one.
C13_QueueAndChatId ==
    \A t \in Tasks :
        /\ Len(sent[t]) <= 1
        /\ \A i \in 1..Len(sent[t]) :
               /\ HasChatId(t)
               /\ sent[t][i].body.t = "obj"
               /\ DOMAIN sent[t][i].body.v = {"chat_id", "text"}
               /\ sent[t][i].body.v.chat_id = ChatIdField(t)
               /\ sent[t][i].body.v.text.t = "str"
               /\ sent[t][i].queue \in {"ImageToText", "Reply", "Music"}
               /\ sent[t][i].queue = QueueOfCommand(t)

\* a song list for chat -3 went to the music queue
C13_Witness ==
    \E t \in Tasks :
        /\ Done(t)
        /\ status[t] = "OK"
        /\ Len(sent[t]) = 1
        /\ sent[t][1].queue = "Music"
        /\ ChatIdField(t) = JInt(-3)
        /\ sent[t][1].body.v.chat_id = JInt(-3)
        /\ sent[t][1].body.v.text.v # <<>>

----
\* Handles shared by submissions in flight (Spec)

\* the handle and the ticket of the basic_publish call of task t
HandleOf(t) == sent[t][1].chan

TicketOf(t) == sent[t][1].ticket

\* C14 as the spec states it: no two basic_publish calls in flight at the
\* same time use the same handle.
C14_OneSubmissionPerHandle ==
    \A t1, t2 \in Tasks :
        (t1 # t2 /\ InFlight(t1) /\ InFlight(t2)) => HandleOf(t1) # HandleOf(t2)

\* C14: the pool issues a handle again K acquisitions later whether or not
\* its earlier submission has completed, so two calls in flight at the same
\* time use the same handle exactly when their handles were issued a
\* multiple of K acquisitions apart; calls whose handles were issued fewer
\* than K acquisitions apart use different handles.
C14_SharedOnlyAcrossCycles ==
    \A t1, t2 \in Tasks :
        (t1 # t2 /\ InFlight(t1) /\ InFlight(t2)) =>
            /\ TicketOf(t1) # TicketOf(t2)
            /\ HandleOf(t1) = HandleOf(t2) <=> (TicketOf(t1) - TicketOf(t2)) % K = 0

\* two calls in flight on one handle, issued K acquisitions apart
C14_Witness ==
    \E t1, t2 \in Tasks :
        /\ InFlight(t1)
        /\ InFlight(t2)
        /\ HandleOf(t1) = HandleOf(t2)
        /\ TicketOf(t2) = TicketOf(t1) + K

----
\* The pool's collection of handles (Spec)

\* the request of task t has ended with a failed submission
Failed(t) == Done(t) /\ status[t] = "INTERNAL_SERVER_ERROR" /\ sent[t] # <<>>

\* C15: the pool's collection of handles is never mutated after
\* construction: whatever was acquired and whatever submissions succeeded
\* or failed, it holds the same K handles in the same order, and a handle
\* on which a submission failed is issued again by every K-th acquisition
\* after the one that issued it.
C15_PoolNeverMutated ==
    /\ [](/\ channels = MainChannels
          /\ \A t \in Tasks :
                 Failed(t) =>
                     \A j \in 1..Len(issued) :
                         (j > TicketOf(t) /\ (j - TicketOf(t)) % K = 0) =>
                             issued[j] = HandleOf(t))
    /\ [][channels' = channels]_vars

\* a handle is issued again K acquisitions after a submission failed on it
C15_Witness ==
    \E t \in Tasks :
        /\ Failed(t)
        /\ Len(issued) >= TicketOf(t) + K
        /\ issued[TicketOf(t) + K] = HandleOf(t)
        /\ channels = MainChannels

----
\* Progress of get_next_channel (SpecFair)

\* task t is inside get_next_channel
InGetNextChannel(t) == pc[t] \in {"lock", "read", "advance", "unlock"}

\* C16: with the pool main builds, get_next_channel never fails and blocks
\* only on the mutual-exclusion wait: the empty-pool panic is unreachable,
\* whenever a call is pending some call can take a step, and under fair
\* scheduling every call of every task eventually returns a handle.
C16_AlwaysReturnsHandle ==
    /\ [](\A t \in Tasks : pc[t] # "panic")
    /\ []((\E t \in Tasks : InGetNextChannel(t)) =>
              \E t \in Tasks :
                  ENABLED (Lock(t) \/ NextRead(t) \/ NextAdvance(t) \/ Unlock(t)))
    /\ \A t \in Tasks :
           (pc[t] = "lock") ~> (InFlight(t) /\ chan[t] # <<>>)

\* a call waits for the lock another task holds
C16_Witness ==
    \E t1, t2 \in Tasks :
        /\ t1 # t2
        /\ pc[t1] = "lock"
        /\ holder = t2
        /\ ~LockFree

----
\* The pool is touched by publishing requests only (Spec)

\* the request of task t returns from receive_message without a call of
\* publish_to_queue: a no-op or a client error
ReturnsEarly(t) == pc[t] = "idle" /\ pc'[t] = "done"

\* the cycle position: the index of the handle the next call will yield
CyclePosition == pos % K

\* task t takes its handle inside publish_to_queue
TakesHandle(t) ==
    /\ pc[t] = "advance"
    /\ pc'[t] = "unlock"
    /\ queue[t] # ""
    /\ chan[t] = <<>>
    /\ holder = t

\* C17: a request that ends as a no-op or a client error leaves the pool as
\* it was and holds no handle; the cycle position moves by exactly one, and
\* only when a request inside publish_to_queue takes its handle; so the
\* n-th request to take a handle submits on handle (n-1) mod K, whatever
\* other requests came in between.
C17_OnlyPublishersAdvance ==
    /\ [](/\ CyclePosition = Len(issued) % K
          /\ \A t \in Tasks :
                /\ (Done(t) /\ status[t] \notin {"INTERNAL_SERVER_ERROR"}
                            /\ sent[t] = <<>>) =>
                       chan[t] = <<>> /\ queue[t] = ""
                /\ \A i \in 1..Len(sent[t]) :
                       sent[t][i].chan = channels[((sent[t][i].ticket - 1) % K) + 1])
    /\ [][/\ \A t \in Tasks :
                ReturnsEarly(t) =>
                    /\ pos' = pos
                    /\ issued' = issued
                    /\ holder' = holder
                    /\ channels' = channels
                    /\ chan' = chan
                    /\ sent' = sent
          /\ (pos' # pos \/ issued' # issued) =>
                /\ CyclePosition' = (CyclePosition + 1) % K
                /\ Len(issued') = Len(issued) + 1
                /\ \E t \in Tasks : TakesHandle(t)]_vars

\* a second or later submission is in flight while another request has
\* just been rejected, and more requests were received than handles issued
C17_Witness ==
    \E t1, t2 \in Tasks :
        /\ InFlight(t1)
        /\ TicketOf(t1) >= 2
        /\ Done(t2)
        /\ status[t2] = "BAD_REQUEST"
        /\ nreq >= Len(issued) + 2

----
\* Only the selected photo is asked for its file_id (SpecImage)

\* C18: for a /readimage request with a chat id and a non-empty photo
\* array, the image reference is looked up in the selected element alone:
\* when that element has no string file_id the request ends with
\* BAD_REQUEST and nothing published, whatever file_ids the other elements
\* carry; when it has one, exactly one message is published and its text is
\* that file_id.
C18_OnlySelectedConsulted ==
    \A t \in Tasks :
        ReadImageRequest(t) =>
            LET arr == PhotoField(t).v
                e == arr[LastWidest(arr)]
            IN  IF ~HasFileId(e)
                THEN /\ sent[t] = <<>>
                     /\ pc[t] \notin {"lock", "read", "advance", "unlock", "publish"}
                     /\ Done(t) => status[t] = "BAD_REQUEST" /\ chan[t] = <<>>
                ELSE /\ Len(sent[t]) <= 1
                     /\ \A i \in 1..Len(sent[t]) :
                            /\ sent[t][i].queue = IMAGE_QUEUE
                            /\ sent[t][i].body =
                                   JObj([chat_id |-> ChatIdField(t),
                                         text |-> JStr(At(e, <<"file_id">>).v)])
                     /\ Done(t) =>
                            /\ Len(sent[t]) = 1
                            /\ status[t] \in {"OK", "INTERNAL_SERVER_ERROR"}

\* a rejected request whose selected photo has no file_id while another
\* photo of the array has one
C18_Witness ==
    \E t \in Tasks :
        /\ ReadImageRequest(t)
        /\ Done(t)
        /\ status[t] = "BAD_REQUEST"
        /\ sent[t] = <<>>
        /\ LET arr == PhotoField(t).v
           IN  /\ ~HasFileId(arr[LastWidest(arr)])
               /\ \E i \in 1..Len(arr) : HasFileId(arr[i])

====
